---- MODULE Spec2Model ----
(***************************************************************************)
(* Market-data bridge: the four polling connectors and the polling loop   *)
(* of bridge/bridge.py, and the text extractor and message handler of     *)
(* bridge/telegram_bot.py.                                                 *)
(*                                                                         *)
(* Decimal quantities are held as integers in units of 1/Scale, with      *)
(* Scale = 2000, so that three decimal places and the halving of a        *)
(* midpoint are exact: 31.10 is 62200.                                     *)
(***************************************************************************)
EXTENDS Integers, Sequences, FiniteSets, TLC

VARIABLES
    conn,        \* the function under call: a connector, or parse_prices
    payload,     \* its input: what the remote end answers, or the text
    called,      \* TRUE once the call has returned or raised
    result,      \* what the call returned
    raised,      \* TRUE iff an exception left the call
    \* bridge.py main()
    pc,          \* the statement main() is at
    tick,        \* iterations of the while loop begun
    now,         \* time.time()
    start_time,
    updates,
    sleep_time,
    insertCalls, \* insert(...).execute() calls made in this iteration
    insertArg,   \* the batch given to the latest of them
    insertRaised,\* TRUE iff one of them raised
    prevFailed,  \* TRUE iff an insert call of the iteration before raised
    fetched,     \* <<connector, what it returned>> for each call of this iteration, in order
    work,        \* time spent since this iteration read start_time
    \* telegram_bot.py
    GROUP_ID,    \* the module's GROUP_ID after lines 24-26
    update,      \* the Update given to handle_message
    chatPc,      \* "pending" while update awaits its handler, then "handled"
    msgNo,       \* messages delivered so far
    extracted,   \* the outcome of this message's parse_prices call, if one was made
    parsedText,  \* TRUE iff handle_message called parse_prices for this message
    chatInserts, \* insert(...).execute() calls made for this message
    chatInsertArg, \* the batch given to the latest insert call
    chatInsertFailed, \* TRUE iff the insert call made for this message raised
    chatRaised   \* TRUE iff an exception left handle_message for this message

fetchVars == <<conn, payload, called, result, raised>>
pollVars == <<pc, tick, now, start_time, updates, sleep_time,
              insertCalls, insertArg, insertRaised, prevFailed, fetched, work>>
chatVars == <<GROUP_ID, update, chatPc, msgNo, extracted, parsedText,
              chatInserts, chatInsertArg, chatInsertFailed, chatRaised>>
vars == <<fetchVars, pollVars, chatVars>>

----------------------------------------------------------------------------
(* Bounds *)

\* most levels a depth response carries on one side (the servers are asked for 5)
MaxLevels == 6
\* iterations of the polling loop followed
MaxTicks == 2
\* clock units in a second
UnitsPerSecond == 2
\* most clock units one request (a fetch, an insert) takes
MaxStepTime == 1
\* messages delivered to the chat handler
MaxMessages == 2

----------------------------------------------------------------------------
(* Python values *)

Scale == 2 * 1000

None == [t |-> "none", v |-> 0]
Float(n) == [t |-> "float", v |-> n]
\* a JSON string spelling the number n, e.g. "31.10"
NumStr(n) == [t |-> "numstr", v |-> n]
\* a JSON string that spells no number, e.g. "abc"
Text == [t |-> "text", v |-> 0]

PyInt(n) == [t |-> "int", v |-> n]
\* the empty string
EmptyStr == [t |-> "str", v |-> 0]

\* bool(x) for the values above: None, 0, 0.0 and "" are false
Truthy(x) ==
    ~(x.t = "none" \/ (x.t \in {"float", "int"} /\ x.v = 0) \/ x = EmptyStr)

\* float(x) raises TypeError on None and ValueError on a non-numeric string
FloatRaises(x) == x.t \notin {"float", "numstr"}
float(x) == Float(x.v)

\* the outcome of running a block: it raised, or it returned ret
Raise == [exc |-> TRUE, ret |-> None]
Return(x) == [exc |-> FALSE, ret |-> x]

\* the same block without its except clause
ExceptPropagates(o) == o
\* try: <body> / except Exception as e: print(...) / return None
ExceptException(o) == IF o.exc THEN Return(None) ELSE o

----------------------------------------------------------------------------
(* Depth connectors *)

DepthLimit == 5

\* s[:n]
Take(s, n) == SubSeq(s, 1, IF Len(s) < n THEN Len(s) ELSE n)

\* side[-5:], the slip of cutting from the wrong end
SliceLast5(s) == SubSeq(s, IF Len(s) < DepthLimit THEN 1 ELSE Len(s) - DepthLimit + 1, Len(s))
\* side[:5]
Slice5(s) == Take(s, DepthLimit)

\* [[float(p), float(v)] for p, v in side[:5]] raises when side is no list,
\* when a level is no 2-element list, or when float() raises
LevelRaises(l) ==
    \/ l.t # "list"
    \/ Len(l.items) # 2
    \/ FloatRaises(l.items[1])
    \/ FloatRaises(l.items[2])

SideRaises(side) ==
    \/ side.t # "list"
    \/ \E i \in 1..Len(Slice5(side.items)) : LevelRaises(Slice5(side.items)[i])

ParseSide(side) ==
    [i \in 1..Len(Slice5(side.items)) |->
        <<float(Slice5(side.items)[i].items[1]), float(Slice5(side.items)[i].items[2])>>]

\* bids[0][0] if bids else None
Best(levels) == IF Len(levels) > 0 THEN levels[1][1] ELSE None

\* (best_bid + best_ask) / 2 if (best_bid and best_ask) else None
MidIfBoth(b, a) ==
    IF Truthy(b) /\ Truthy(a) THEN Float((b.v + a.v) \div 2) ELSE None

DepthRecord(source, symbol, data) ==
    LET bids == ParseSide(data.bids)
        asks == ParseSide(data.asks)
        best_bid == Best(bids)
        best_ask == Best(asks)
    IN  [source |-> source, symbol |-> symbol,
         price |-> MidIfBoth(best_bid, best_ask),
         bid |-> best_bid, ask |-> best_ask,
         order_book |-> [bids |-> bids, asks |-> asks],
         raw_data |-> data]

\* data['bids'] on a list (or anything but a dict) raises
DepthBody(source, symbol, data) ==
    IF data.t # "dict" THEN Raise
    ELSE IF SideRaises(data.bids) \/ SideRaises(data.asks) THEN Raise
    ELSE Return(DepthRecord(source, symbol, data))

\* 'bids' in data and 'asks' in data, for a dict or a list of strings;
\* on None the test itself raises TypeError
HasKeys(data) == {"bids", "asks"} \subseteq data.keys

fetch_bitkub_try(resp) ==
    IF resp.status # "ok" THEN Raise
    ELSE IF resp.data.t # "null" /\ resp.data.keys # {} /\ HasKeys(resp.data)
         THEN DepthBody("bitkub", "THB_USDT", resp.data)
         ELSE Return(None)

fetch_bitkub(resp) == ExceptException(fetch_bitkub_try(resp))

fetch_binance_th_try(resp) ==
    IF resp.status # "ok" THEN Raise
    ELSE IF resp.data.t = "null" THEN Raise
    ELSE IF HasKeys(resp.data)
         THEN DepthBody("binance_th", "USDTTHB", resp.data)
         ELSE Return(None)

fetch_binance_th(resp) == ExceptException(fetch_binance_th_try(resp))

----------------------------------------------------------------------------
(* Responses a depth endpoint can give *)

BidBase == 31 * Scale
AskBase == 32 * Scale

List(items) == [t |-> "list", items |-> items]
Null == [t |-> "null", items |-> <<>>]

\* n levels, best first; level i is quoted step*i away from the first and
\* the level at position bad (if any) carries a non-numeric price
Levels(n, first, step, bad) ==
    [i \in 1..n |->
        List(<< IF i = bad THEN Text
                ELSE IF i = 1 THEN first
                ELSE Float(first.v + step * (i - 1)),
                Float(i * Scale) >>)]

Sides(base, step) ==
    {Null, List(<<List(<<Float(base), Float(Scale), Float(0)>>)>>)}
    \cup {List(Levels(n, first, step, bad)) :
            n \in 0..MaxLevels,
            first \in {Float(0), Float(base), NumStr(base)},
            bad \in 0..MaxLevels}

DepthData ==
    {[t |-> "null", keys |-> {}, bids |-> Null, asks |-> Null],
     [t |-> "list", keys |-> {}, bids |-> Null, asks |-> Null],
     [t |-> "list", keys |-> {"bids", "asks"}, bids |-> Null, asks |-> Null],
     [t |-> "dict", keys |-> {}, bids |-> Null, asks |-> Null],
     [t |-> "dict", keys |-> {"bids"}, bids |-> List(<<>>), asks |-> Null]}
    \cup {[t |-> "dict", keys |-> {"bids", "asks"}, bids |-> b, asks |-> a] :
            b \in Sides(BidBase, -1), a \in Sides(AskBase, 1)}

NoData == [t |-> "null", keys |-> {}, bids |-> Null, asks |-> Null]

DepthResponses ==
    {[status |-> s, data |-> NoData] : s \in {"transport_error", "not_json"}}
    \cup {[status |-> "ok", data |-> d] : d \in DepthData}

----------------------------------------------------------------------------
(* OTC desk connector *)

\* data.get('responseCode') raises on anything but a dict; res['bid'] raises
\* when res is no dict or lacks the key; float() raises on a non-number
fetch_maxbit_try(resp) ==
    IF resp.status # "ok" THEN Raise
    ELSE IF resp.data.t # "dict" THEN Raise
    ELSE IF resp.data.responseCode = "000" /\ "result" \in resp.data.keys
         THEN LET res == resp.data.result
              IN  IF res.t # "dict" \/ ~({"bid", "ask"} \subseteq res.keys) THEN Raise
                  ELSE IF FloatRaises(res.bid) \/ FloatRaises(res.ask) THEN Raise
                  ELSE LET bid == float(res.bid)
                           ask == float(res.ask)
                       IN  Return([source |-> "maxbit", symbol |-> "USDT",
                                   price |-> Float((bid.v + ask.v) \div 2),
                                   bid |-> bid, ask |-> ask,
                                   order_book |-> None,
                                   raw_data |-> resp.data])
         ELSE Return(None)

fetch_maxbit(resp) == ExceptException(fetch_maxbit_try(resp))

OtcValues == {Float(0), Float(BidBase), NumStr(AskBase), Text, None}

OtcResults ==
    {[t |-> "null", keys |-> {}, bid |-> None, ask |-> None],
     [t |-> "dict", keys |-> {}, bid |-> None, ask |-> None],
     [t |-> "dict", keys |-> {"bid"}, bid |-> Float(BidBase), ask |-> None]}
    \cup {[t |-> "dict", keys |-> {"bid", "ask"}, bid |-> b, ask |-> a] :
            b \in OtcValues, a \in OtcValues}

NoOtcResult == [t |-> "null", keys |-> {}, bid |-> None, ask |-> None]

\* responseCode "" stands for an envelope without the key
OtcData ==
    {[t |-> k, keys |-> {}, responseCode |-> "", result |-> NoOtcResult] :
        k \in {"null", "list", "dict"}}
    \cup {[t |-> "dict", keys |-> {"responseCode"}, responseCode |-> c,
           result |-> NoOtcResult] : c \in {"000", "001"}}
    \cup {[t |-> "dict", keys |-> {"responseCode", "result"}, responseCode |-> c,
           result |-> r] : c \in {"000", "001", "999"}, r \in OtcResults}

NoOtcData == [t |-> "null", keys |-> {}, responseCode |-> "", result |-> NoOtcResult]

OtcResponses ==
    {[status |-> s, data |-> NoOtcData] : s \in {"transport_error", "not_json"}}
    \cup {[status |-> "ok", data |-> d] : d \in OtcData}

----------------------------------------------------------------------------
(* FX rate connector *)

\* 'rates' in data raises on None; 'THB' in data['rates'] raises when
\* data is a list or rates is None; the rate is stored as it came
fetch_fx_try(resp) ==
    IF resp.status # "ok" THEN Raise
    ELSE IF resp.data.t = "null" THEN Raise
    ELSE IF "rates" \notin resp.data.keys THEN Return(None)
    ELSE IF resp.data.t # "dict" \/ resp.data.rates.t # "dict" THEN Raise
    ELSE IF "THB" \in resp.data.rates.keys
         THEN Return([source |-> "fx", symbol |-> "USD_THB",
                      price |-> resp.data.rates.THB,
                      bid |-> None, ask |-> None,
                      order_book |-> None,
                      raw_data |-> resp.data])
         ELSE Return(None)

fetch_fx(resp) == ExceptException(fetch_fx_try(resp))

FxBase == 35 * Scale

FxValues == {Float(0), Float(FxBase), Float(FxBase + 1), NumStr(FxBase), Text, None}

NoRates == [t |-> "null", keys |-> {}, THB |-> None]

FxRates ==
    {NoRates, [t |-> "dict", keys |-> {}, THB |-> None], [t |-> "dict", keys |-> {"USD"}, THB |-> None]}
    \cup {[t |-> "dict", keys |-> {"USD", "THB"}, THB |-> r] : r \in FxValues}

FxData ==
    {[t |-> k, keys |-> {}, rates |-> NoRates] : k \in {"null", "list", "dict"}}
    \cup {[t |-> "list", keys |-> {"rates"}, rates |-> NoRates]}
    \cup {[t |-> "dict", keys |-> {"rates"}, rates |-> r] : r \in FxRates}

NoFxData == [t |-> "null", keys |-> {}, rates |-> NoRates]

FxResponses ==
    {[status |-> s, data |-> NoFxData] : s \in {"transport_error", "not_json"}}
    \cup {[status |-> "ok", data |-> d] : d \in FxData}

----------------------------------------------------------------------------
(* The polling loop before its first iteration *)

PollIdle ==
    /\ pc = "idle"
    /\ tick = 0
    /\ now = 0
    /\ start_time = 0
    /\ updates = <<>>
    /\ sleep_time = 0
    /\ insertCalls = 0
    /\ insertArg = <<>>
    /\ insertRaised = FALSE
    /\ prevFailed = FALSE
    /\ fetched = <<>>
    /\ work = 0

----------------------------------------------------------------------------
(* telegram_bot.py parse_prices(): the text extractor *)

(* A text is a sequence of tokens: a digit, ".", one of the four marker      *)
(* phrases up to and including the blank before the number                  *)
(*   "UB" = "USDT>THB (Bid) <is> "    "UA" = "THB>USDT (Ask) <is> "          *)
(*   "CB" = "USDC>THB (Bid) <is> "    "CA" = "THB>USDC (Ask) <is> "          *)
(* one of the two headings "PU" = "<pin>USDT", "PC" = "<pin>USDC", or "x",   *)
(* any other piece of text.                                                  *)

DigitChars == <<"0", "1", "2", "3", "4", "5", "6", "7", "8", "9">>
IsDigit(c) == \E k \in 1..Len(DigitChars) : DigitChars[k] = c
DigitVal(c) == (CHOOSE k \in 1..Len(DigitChars) : DigitChars[k] = c) - 1
\* the class [0-9.]
IsNumChar(c) == IsDigit(c) \/ c = "."

\* the patterns dict, in its iteration order
Symbols == <<"USDT", "USDC">>
BidMarker(symbol) == IF symbol = "USDT" THEN "UB" ELSE "CB"
AskMarker(symbol) == IF symbol = "USDT" THEN "UA" ELSE "CA"

\* the pattern <marker>([0-9.]+) matches at i
MatchesAt(text, marker, i) ==
    /\ i < Len(text)
    /\ text[i] = marker
    /\ IsNumChar(text[i + 1])

\* re.search: the leftmost position the pattern matches at, 0 for no match
Search(text, marker) ==
    IF \E i \in 1..Len(text) : MatchesAt(text, marker, i)
    THEN CHOOSE i \in 1..Len(text) :
            /\ MatchesAt(text, marker, i)
            /\ \A k \in 1..Len(text) : MatchesAt(text, marker, k) => i <= k
    ELSE 0

\* match.group(1): the longest run of [0-9.] after the marker at i
RECURSIVE RunEnd(_, _)
RunEnd(text, k) ==
    IF k < Len(text) /\ IsNumChar(text[k + 1]) THEN RunEnd(text, k + 1) ELSE k

Group1(text, i) == SubSeq(text, i + 1, RunEnd(text, i + 1))

\* float(s) for s over [0-9.]: ValueError unless s has a digit and at most one "."
Dots(s) == Cardinality({k \in 1..Len(s) : s[k] = "."})
FloatStrRaises(s) == Dots(s) > 1 \/ Dots(s) = Len(s)

RECURSIVE Pow10(_)
Pow10(k) == IF k = 0 THEN 1 ELSE 10 * Pow10(k - 1)

RECURSIVE DigitsVal(_)
DigitsVal(s) == IF s = <<>> THEN 0
                ELSE 10 * DigitsVal(SubSeq(s, 1, Len(s) - 1)) + DigitVal(s[Len(s)])

\* the number s spells, in units of 1/Scale (exact up to three decimals)
FloatStr(s) ==
    LET dot == IF Dots(s) = 0 THEN Len(s) + 1 ELSE CHOOSE k \in 1..Len(s) : s[k] = "."
        whole == SubSeq(s, 1, dot - 1)
        frac == SubSeq(s, dot + 1, Len(s))
    IN  Float(DigitsVal(whole) * Scale + (DigitsVal(frac) * Scale) \div Pow10(Len(frac)))

\* if bid_match and ask_match
BothFound(text, symbol) ==
    Search(text, BidMarker(symbol)) # 0 /\ Search(text, AskMarker(symbol)) # 0

BidText(text, symbol) == Group1(text, Search(text, BidMarker(symbol)))
AskText(text, symbol) == Group1(text, Search(text, AskMarker(symbol)))

TextRecord(text, symbol) ==
    LET bid == FloatStr(BidText(text, symbol))
        ask == FloatStr(AskText(text, symbol))
    IN  [source |-> "bitazza", symbol |-> symbol,
         price |-> Float((bid.v + ask.v) \div 2),
         bid |-> bid, ask |-> ask,
         order_book |-> None,
         raw_data |-> [full_text |-> text]]

\* the for loop over patterns.items(), from the k-th symbol on, with the
\* results appended so far; float() is not guarded, so its ValueError leaves
\* parse_prices
RECURSIVE ParseFrom(_, _, _)
ParseFrom(text, k, results) ==
    IF k > Len(Symbols) THEN Return(results)
    ELSE IF ~BothFound(text, Symbols[k]) THEN ParseFrom(text, k + 1, results)
    ELSE IF \/ FloatStrRaises(BidText(text, Symbols[k]))
            \/ FloatStrRaises(AskText(text, Symbols[k])) THEN Raise
    ELSE ParseFrom(text, k + 1, Append(results, TextRecord(text, Symbols[k])))

parse_prices(text) == ParseFrom(text, 1, <<>>)

----------------------------------------------------------------------------
(* Texts a broadcast can carry *)

Concat(a, b, c, d, e, f) == a \o b \o c \o d \o e \o f

Heads == {<<>>, <<"PU">>, <<"x", "PC">>}
UsdtBids == {<<>>, <<"UB", "x">>, <<"UB", "0">>,
             <<"UB", "3", "1", ".", "1", "8", "8", "x">>,
             <<"UB", "3", "1", ".", "1", ".", "8">>}
UsdtAsks == {<<>>, <<"UA", "3", "1", ".", "2", "4", "5">>, <<"UA", ".", "x">>}
UsdcBids == {<<>>, <<"x", "CB", "1">>}
UsdcAsks == {<<>>, <<"CA">>, <<"CA", "1", ".", "5", "x">>}
\* a marker said a second time, with another number
Repeats == {<<>>, <<"UB", "9">>}

Texts ==
    {Concat(h, ub, ua, cb, ca, r) :
        h \in Heads, ub \in UsdtBids, ua \in UsdtAsks,
        cb \in UsdcBids, ca \in UsdcAsks, r \in Repeats}

----------------------------------------------------------------------------
(* telegram_bot.py handle_message() *)

\* GROUP_ID = os.environ.get("TELEGRAM_GROUP_ID"); if GROUP_ID: GROUP_ID = int(GROUP_ID)
\* for the variable unset, set to "", and set to a decimal numeral
GroupIdOf(env) ==
    IF env = "unset" THEN None
    ELSE IF env = "" THEN EmptyStr
    ELSE IF env = "0" THEN PyInt(0)
    ELSE PyInt(7)

GroupIdEnvs == {"unset", "", "0", "7"}

ChatIds == {7, 9}

NoMessage == [message |-> FALSE, text |-> <<>>, chat_id |-> 0]

\* an Update without a message, a message without text, a text message
Updates(texts) ==
    {NoMessage}
    \cup {[message |-> TRUE, text |-> t, chat_id |-> c] : t \in texts \cup {<<>>}, c \in ChatIds}

\* the texts of the messages that follow the first
LaterTexts ==
    {<<"PU", "UB", "1", "UA", "2">>,
     <<"PC", "CB", "1", "CA", "2", ".", "5">>,
     <<"PU", "UB", "1", "UA", ".">>}

Contains(text, tok) == \E k \in 1..Len(text) : text[k] = tok

\* if GROUP_ID and chat_id != GROUP_ID: return
OtherChat(group, chat_id) == Truthy(group) /\ PyInt(chat_id) # group

\* the insert is in a try whose except Exception prints; parse_prices is outside it
HandleMessage ==
    /\ chatPc = "pending"
    /\ chatPc' = "handled"
    /\ IF ~update.message \/ update.text = <<>>
       THEN UNCHANGED <<extracted, parsedText, chatInserts, chatInsertArg,
                        chatInsertFailed, chatRaised>>
       ELSE IF OtherChat(GROUP_ID, update.chat_id)
       THEN UNCHANGED <<extracted, parsedText, chatInserts, chatInsertArg,
                        chatInsertFailed, chatRaised>>
       ELSE IF ~(Contains(update.text, "PU") \/ Contains(update.text, "PC"))
       THEN UNCHANGED <<extracted, parsedText, chatInserts, chatInsertArg,
                        chatInsertFailed, chatRaised>>
       ELSE LET o == parse_prices(update.text)
            IN  /\ extracted' = o
                /\ parsedText' = TRUE
                /\ chatRaised' = o.exc
                /\ IF ~o.exc /\ o.ret # <<>>
                   THEN /\ chatInserts' = chatInserts + 1
                        /\ chatInsertArg' = o.ret
                        /\ chatInsertFailed' \in BOOLEAN
                   ELSE UNCHANGED <<chatInserts, chatInsertArg, chatInsertFailed>>
    /\ UNCHANGED <<GROUP_ID, update, msgNo>>
    /\ UNCHANGED <<fetchVars, pollVars>>

\* the transport hands the next message to the handler
Deliver ==
    /\ chatPc = "handled"
    /\ msgNo < MaxMessages
    /\ \E u \in Updates(LaterTexts) : update' = u
    /\ chatPc' = "pending"
    /\ msgNo' = msgNo + 1
    /\ extracted' = Return(<<>>)
    /\ parsedText' = FALSE
    /\ chatInserts' = 0
    /\ chatInsertFailed' = FALSE
    /\ chatRaised' = FALSE
    /\ UNCHANGED <<GROUP_ID, chatInsertArg>>
    /\ UNCHANGED <<fetchVars, pollVars>>

ChatIdle ==
    /\ GROUP_ID = None
    /\ update = NoMessage
    /\ chatPc = "handled"
    /\ msgNo = 0
    /\ extracted = Return(<<>>)
    /\ parsedText = FALSE
    /\ chatInserts = 0
    /\ chatInsertArg = <<>>
    /\ chatInsertFailed = FALSE
    /\ chatRaised = FALSE

ChatInit ==
    /\ PollIdle
    /\ conn = ""
    /\ payload = None
    /\ result = None
    /\ raised = FALSE
    /\ called = FALSE
    /\ \E env \in GroupIdEnvs : GROUP_ID = GroupIdOf(env)
    /\ update \in Updates(Texts)
    /\ chatPc = "pending"
    /\ msgNo = 1
    /\ extracted = Return(<<>>)
    /\ parsedText = FALSE
    /\ chatInserts = 0
    /\ chatInsertArg = <<>>
    /\ chatInsertFailed = FALSE
    /\ chatRaised = FALSE

ChatNext ==
    \/ HandleMessage
    \/ Deliver

----------------------------------------------------------------------------
(* The connectors and the extractor, each applied once to an input drawn at the start *)

Connectors == {"bitkub", "binance_th", "maxbit", "fx"}

\* the inputs of a connector are responses, those of parse_prices are texts
Responses(name) ==
    IF name \in {"bitkub", "binance_th"} THEN DepthResponses
    ELSE IF name = "maxbit" THEN OtcResponses
    ELSE IF name = "fx" THEN FxResponses
    ELSE Texts

FetchInit ==
    /\ PollIdle
    /\ ChatIdle
    /\ conn \in Connectors \cup {"parse_prices"}
    /\ payload \in Responses(conn)
    /\ result = None
    /\ raised = FALSE
    /\ called = FALSE

Called(o) ==
    /\ ~called
    /\ called' = TRUE
    /\ result' = o.ret
    /\ raised' = o.exc
    /\ UNCHANGED <<conn, payload>>
    /\ UNCHANGED <<pollVars, chatVars>>

FetchBitkub == conn = "bitkub" /\ Called(fetch_bitkub(payload))

FetchBinanceTh == conn = "binance_th" /\ Called(fetch_binance_th(payload))

FetchMaxbit == conn = "maxbit" /\ Called(fetch_maxbit(payload))

FetchFx == conn = "fx" /\ Called(fetch_fx(payload))

ParsePrices == conn = "parse_prices" /\ Called(parse_prices(payload))

FetchNext ==
    \/ FetchBitkub
    \/ FetchBinanceTh
    \/ FetchMaxbit
    \/ FetchFx
    \/ ParsePrices

FetchSpec == FetchInit /\ [][FetchNext]_vars

----------------------------------------------------------------------------
(* bridge.py main(): the polling loop *)

INTERVAL_SECONDS == 1

Interval == INTERVAL_SECONDS * UnitsPerSecond

Max(a, b) == IF a > b THEN a ELSE b

Durations == 0..MaxStepTime

\* what the endpoints answer while the loop runs
PollResponses(name) ==
    IF name = "bitkub" THEN
        {[status |-> "transport_error", data |-> NoData],
         [status |-> "ok",
          data |-> [t |-> "dict", keys |-> {"bids", "asks"},
                    bids |-> List(Levels(MaxLevels, Float(BidBase), -1, 0)),
                    asks |-> List(Levels(MaxLevels, Float(AskBase), 1, 0))]]}
    ELSE IF name = "binance_th" THEN
        {[status |-> "not_json", data |-> NoData],
         [status |-> "ok",
          data |-> [t |-> "dict", keys |-> {"bids", "asks"},
                    bids |-> List(Levels(1, NumStr(BidBase), -1, 0)),
                    asks |-> List(<<>>)]]}
    ELSE IF name = "maxbit" THEN
        {[status |-> "ok",
          data |-> [t |-> "dict", keys |-> {"responseCode"}, responseCode |-> "001",
                    result |-> NoOtcResult]],
         [status |-> "ok",
          data |-> [t |-> "dict", keys |-> {"responseCode", "result"},
                    responseCode |-> "000",
                    result |-> [t |-> "dict", keys |-> {"bid", "ask"},
                                bid |-> Float(BidBase), ask |-> NumStr(AskBase)]]]}
    ELSE
        {[status |-> "ok", data |-> [t |-> "dict", keys |-> {"rates"},
                                     rates |-> [t |-> "dict", keys |-> {"USD"}, THB |-> None]]],
         [status |-> "ok", data |-> [t |-> "dict", keys |-> {"rates"},
                                     rates |-> [t |-> "dict", keys |-> {"USD", "THB"},
                                                THB |-> Float(FxBase)]]],
         [status |-> "ok", data |-> [t |-> "dict", keys |-> {"rates"},
                                     rates |-> [t |-> "dict", keys |-> {"USD", "THB"},
                                                THB |-> Float(FxBase + 1)]]]}

fetch(name, resp) ==
    IF name = "bitkub" THEN fetch_bitkub(resp)
    ELSE IF name = "binance_th" THEN fetch_binance_th(resp)
    ELSE IF name = "maxbit" THEN fetch_maxbit(resp)
    ELSE fetch_fx(resp)

PollInit ==
    /\ PollIdle
    /\ ChatIdle
    /\ conn = ""
    /\ payload = None
    /\ result = None
    /\ raised = FALSE
    /\ called = FALSE

\* start_time = time.time(); updates = []
Start ==
    /\ pc \in {"idle", "slept"}
    /\ tick < MaxTicks
    /\ pc' = "bitkub"
    /\ tick' = tick + 1
    /\ start_time' = now
    /\ updates' = <<>>
    /\ insertCalls' = 0
    /\ insertArg' = <<>>
    /\ insertRaised' = FALSE
    /\ prevFailed' = insertRaised
    /\ fetched' = <<>>
    /\ work' = 0
    /\ UNCHANGED <<now, sleep_time>>
    /\ UNCHANGED <<fetchVars, chatVars>>

\* updates.append(r) without the test
AppendAlways(batch, r) == Append(batch, r)
\* if r: updates.append(r)     (a Record is a non-empty dict, hence true)
AppendIfTrue(batch, r) == IF r # None THEN Append(batch, r) ELSE batch

\* r = fetch_x(); if r: updates.append(r)
FetchStep(name, next) ==
    /\ pc = name
    /\ \E resp \in PollResponses(name), d \in Durations :
          LET o == fetch(name, resp)
          IN  /\ now' = now + d
              /\ work' = work + d
              /\ IF o.exc
                 THEN /\ pc' = "crashed"
                      /\ UNCHANGED <<updates, fetched>>
                 ELSE /\ pc' = next
                      /\ updates' = AppendIfTrue(updates, o.ret)
                      /\ fetched' = Append(fetched, <<name, o.ret>>)
    /\ UNCHANGED <<tick, start_time, sleep_time,
                   insertCalls, insertArg, insertRaised, prevFailed>>
    /\ UNCHANGED <<fetchVars, chatVars>>

StepBitkub == FetchStep("bitkub", "binance_th")
StepBinanceTh == FetchStep("binance_th", "maxbit")
StepMaxbit == FetchStep("maxbit", "fx")
StepFx == FetchStep("fx", "write")

\* the insert outside a try: its exception ends main()
InsertFailedPropagates(failed) == IF failed THEN "crashed" ELSE "elapsed"
\* try: ... insert(updates).execute() ... except Exception as e: print(...):
\* where main() goes on after the call
InsertFailed(failed) == "elapsed"

\* if updates: <the try statement above>
NoWrite ==
    /\ pc = "write"
    /\ updates = <<>>
    /\ pc' = "elapsed"
    /\ UNCHANGED <<tick, now, start_time, updates, sleep_time,
                   insertCalls, insertArg, insertRaised, prevFailed, fetched, work>>
    /\ UNCHANGED <<fetchVars, chatVars>>

Write ==
    /\ pc = "write"
    /\ updates # <<>>
    /\ \E failed \in BOOLEAN, d \in Durations :
          /\ insertCalls' = insertCalls + 1
          /\ insertArg' = updates
          /\ insertRaised' = failed
          /\ now' = now + d
          /\ work' = work + d
          /\ pc' = InsertFailed(failed)
    /\ UNCHANGED <<tick, start_time, updates, sleep_time, prevFailed, fetched>>
    /\ UNCHANGED <<fetchVars, chatVars>>

\* the subtraction without max(0, ...)
SleepTimeUnclamped(elapsed) == Interval - elapsed
\* elapsed = time.time() - start_time; sleep_time = max(0, INTERVAL_SECONDS - elapsed)
SleepTime(elapsed) == Max(0, Interval - elapsed)

Elapsed ==
    /\ pc = "elapsed"
    /\ sleep_time' = SleepTime(now - start_time)
    /\ pc' = "sleep"
    /\ UNCHANGED <<tick, now, start_time, updates,
                   insertCalls, insertArg, insertRaised, prevFailed, fetched, work>>
    /\ UNCHANGED <<fetchVars, chatVars>>

\* time.sleep(sleep_time)
Sleep ==
    /\ pc = "sleep"
    /\ now' = now + sleep_time
    /\ pc' = "slept"
    /\ UNCHANGED <<tick, start_time, updates, sleep_time,
                   insertCalls, insertArg, insertRaised, prevFailed, fetched, work>>
    /\ UNCHANGED <<fetchVars, chatVars>>

PollNext ==
    \/ Start
    \/ StepBitkub
    \/ StepBinanceTh
    \/ StepMaxbit
    \/ StepFx
    \/ NoWrite
    \/ Write
    \/ Elapsed
    \/ Sleep

PollSpec == PollInit /\ [][PollNext]_vars

\* the loop is one sequential thread: a statement that can run does run
PollFairSpec == PollSpec /\ WF_vars(PollNext)

ChatSpec == ChatInit /\ [][ChatNext]_vars

----------------------------------------------------------------------------
(* Properties of the connectors and of the extractor *)

IsRecord(x) == "source" \in DOMAIN x

\* the Records a finished call handed back
Emitted ==
    IF ~called \/ raised THEN {}
    ELSE IF conn = "parse_prices" THEN {result[k] : k \in 1..Len(result)}
    ELSE IF result = None THEN {}
    ELSE {result}

\* C1: every Record whose bid and ask are both set has price = (bid + ask) / 2,
\* also when the best bid or the best ask is numerically 0.
MidpointInvariant ==
    \A r \in Emitted :
        (r.bid # None /\ r.ask # None) => r.price = Float((r.bid.v + r.ask.v) \div 2)

\* C2: whatever the request's outcome, a connector returns a Record or None and
\* no exception leaves it; a rejected OTC envelope gives None.
RejectedOtc ==
    /\ conn = "maxbit"
    /\ payload.status = "ok"
    /\ payload.data.t = "dict"
    /\ (payload.data.responseCode # "000" \/ "result" \notin payload.data.keys)

FailureIsolation ==
    (called /\ conn \in Connectors)
        => /\ ~raised
           /\ (result = None \/ IsRecord(result))
           /\ (RejectedOtc => result = None)

FailureIsolationWitness ==
    called /\ RejectedOtc /\ payload.data.responseCode = "001" /\ result = None

\* C6: each side of a depth Record's order_book holds the first 5 levels of the
\* response in their order (all of them when there are fewer), never more than 5.
FirstFiveOf(out, side) ==
    /\ Len(out) = (IF Len(side.items) > 5 THEN 5 ELSE Len(side.items))
    /\ \A i \in 1..Len(out) :
          out[i] = <<float(side.items[i].items[1]), float(side.items[i].items[2])>>

DepthTruncation ==
    (called /\ conn \in {"bitkub", "binance_th"} /\ result # None)
        => /\ FirstFiveOf(result.order_book.bids, payload.data.bids)
           /\ FirstFiveOf(result.order_book.asks, payload.data.asks)

DepthTruncationWitness ==
    /\ called /\ conn = "binance_th" /\ result # None
    /\ Len(payload.data.bids.items) > 5
    /\ Len(payload.data.asks.items) > 5
    /\ Len(result.order_book.bids) = 5
    /\ Len(result.order_book.asks) = 5
    /\ result.order_book.asks[5] # result.order_book.asks[1]

\* C9: a value that is neither a number nor a textual number, in a numeric field
\* a connector reads (a price or size among the levels it keeps, the OTC bid or
\* ask, the FX rate of THB), makes the fetch return None.
ReadsNonNumeric ==
    \/ /\ conn \in {"bitkub", "binance_th"}
       /\ payload.status = "ok" /\ payload.data.t = "dict" /\ HasKeys(payload.data)
       /\ \E side \in {payload.data.bids, payload.data.asks} :
            \E i \in 1..Len(side.items) :
               /\ i <= 5
               /\ \E k \in 1..Len(side.items[i].items) : FloatRaises(side.items[i].items[k])
    \/ /\ conn = "maxbit" /\ payload.status = "ok" /\ payload.data.t = "dict"
       /\ payload.data.responseCode = "000" /\ "result" \in payload.data.keys
       /\ {"bid", "ask"} \subseteq payload.data.result.keys
       /\ (FloatRaises(payload.data.result.bid) \/ FloatRaises(payload.data.result.ask))
    \/ /\ conn = "fx" /\ payload.status = "ok" /\ payload.data.t = "dict"
       /\ "rates" \in payload.data.keys /\ "THB" \in payload.data.rates.keys
       /\ FloatRaises(payload.data.rates.THB)

NonNumericFailsFetch ==
    (called /\ conn \in Connectors /\ ReadsNonNumeric) => result = None

\* C5: parse_prices returns exactly one Record for each of USDT and USDC whose
\* bid marker and ask marker are both found in the text, and none for a symbol
\* with one marker or no marker found.
MarkerFound(text, marker) == \E i \in 1..Len(text) : MatchesAt(text, marker, i)

RecordsOf(symbol) ==
    IF raised THEN 0 ELSE Cardinality({k \in 1..Len(result) : result[k].symbol = symbol})

ExtractionCompleteness ==
    (called /\ conn = "parse_prices")
        => \A symbol \in {"USDT", "USDC"} :
              RecordsOf(symbol) =
                 (IF /\ MarkerFound(payload, BidMarker(symbol))
                     /\ MarkerFound(payload, AskMarker(symbol)) THEN 1 ELSE 0)

----------------------------------------------------------------------------
(* Properties of the polling loop *)

ConnectorOrder == <<"bitkub", "binance_th", "maxbit", "fx">>

RECURSIVE NonAbsent(_)
NonAbsent(calls) ==
    IF calls = <<>> THEN <<>>
    ELSE IF calls[1][2] = None THEN NonAbsent(Tail(calls))
    ELSE <<calls[1][2]>> \o NonAbsent(Tail(calls))

\* C3: when an iteration is past its write, each connector was called exactly
\* once, in the order bitkub, binance_th, maxbit, fx; at most one insert call was
\* made, none when every result was None, and otherwise its batch is exactly the
\* results of this iteration that are not None, in call order.
PerTickBatching ==
    pc \in {"elapsed", "sleep", "slept"}
        => /\ [k \in 1..Len(fetched) |-> fetched[k][1]] = ConnectorOrder
           /\ insertCalls <= 1
           /\ (insertCalls = 0) <=> (NonAbsent(fetched) = <<>>)
           /\ (insertCalls = 1) => insertArg = NonAbsent(fetched)

PerTickBatchingWitness ==
    /\ tick = 2 /\ pc = "elapsed"
    /\ fetched[2][2] = None /\ fetched[3][2] # None
    /\ insertCalls = 1
    /\ Len(insertArg) = 3
    /\ insertArg[3].price = Float(FxBase + 1)

\* C4: an insert that raises does not end the loop: main() goes on to compute
\* its sleep, makes no further insert call in that iteration, and the next
\* iteration starts from an empty batch and reaches its own write.
SinkIsolation ==
    /\ [](pc # "crashed")
    /\ [][(pc = "write" /\ insertRaised') => pc' = "elapsed"]_vars
    /\ [][(insertRaised /\ tick' = tick) => insertCalls' = insertCalls]_vars
    /\ [][(insertRaised /\ tick' # tick) =>
             (tick' = tick + 1 /\ updates' = <<>> /\ insertCalls' = 0)]_vars
    /\ \A n \in 1..(MaxTicks - 1) :
          (tick = n /\ insertRaised) ~> (tick = n + 1 /\ prevFailed /\ pc = "write")

\* the second iteration, after a first whose insert raised, is at its write
\* with a batch of its own
SinkIsolationWitness ==
    /\ tick = 2 /\ pc = "write"
    /\ prevFailed /\ insertCalls = 0
    /\ updates # <<>>

\* C8: the sleep computed at the end of an iteration is max(0, interval - elapsed)
\* for the time that iteration spent since it read start_time: never negative,
\* 0 when that time reaches the interval, whatever earlier iterations took.
SchedulerCadence ==
    pc \in {"sleep", "slept"}
        => /\ sleep_time = Max(0, Interval - work)
           /\ sleep_time >= 0
           /\ (work >= Interval => sleep_time = 0)

\* the second iteration follows one that overran and itself takes less than the interval
SchedulerCadenceWitness ==
    /\ tick = 2 /\ pc = "sleep"
    /\ start_time > Interval
    /\ work = 1
    /\ sleep_time = Interval - 1

----------------------------------------------------------------------------
(* Properties of the chat handler *)

\* TELEGRAM_GROUP_ID names a channel
RestrictionConfigured == GROUP_ID.t = "int"

\* C7: handle_message makes an insert call for a message only if the message
\* has a text, comes from the configured channel when one is configured,
\* carries a heading marker and gave at least one Record; it makes at most one
\* call per message, with Records of that message only.
ChatFiltering ==
    chatPc = "handled"
        => /\ chatInserts <= 1
           /\ chatInserts = 1 =>
                 /\ update.message /\ update.text # <<>>
                 /\ RestrictionConfigured => PyInt(update.chat_id) = GROUP_ID
                 /\ Contains(update.text, "PU") \/ Contains(update.text, "PC")
                 /\ chatInsertArg # <<>>
                 /\ \A k \in 1..Len(chatInsertArg) :
                       chatInsertArg[k].raw_data.full_text = update.text

\* C10: parse_prices returns 0..2 Records and never raises, so no exception
\* leaves handle_message.
ExtractorTotality ==
    chatPc = "handled"
        => /\ ~chatRaised
           /\ parsedText => (~extracted.exc /\ Len(extracted.ret) \in 0..2)

====
